---------------------------- MODULE Spec2Model ----------------------------
(***************************************************************************)
(* Calva notebook support (src/src/NotebookProvider.ts).                   *)
(*                                                                         *)
(*  - parseClojure / writeCellsToClojure: the converter between a Clojure  *)
(*    source text and the notebook's cell list (SpecSerial).               *)
(*  - executeAll / doExecution: the controller's execute handler, which    *)
(*    evaluates the cells it is handed one after the other: Spec, FairSpec *)
(*    (Spec with the awaited calls settling) and SpecCell (one cell, with  *)
(*    the full range of evaluator and pretty-printer replies).             *)
(*                                                                         *)
(* Strings are sequences of one-character strings.                         *)
(***************************************************************************)
EXTENDS Integers, Sequences, FiniteSets, TLC

VARIABLES
    \* ---- serializer ----
    content,        \* the decoded text handed to parseClojure
    formRanges,     \* cursor.rangesForTopLevelForms(): sequence of <<start, end>>
    cells,          \* the NotebookCellData[] parseClojure returned
    written,        \* the outcome of writeCellsToClojure(cells)
    spc,            \* serializer position: "loaded" | "parsed" | "written"
    \* ---- kernel ----
    replies,        \* which replies the evaluator and the pretty printer may give: "few" | "all"
    runs,           \* one record per invocation of executeAll
    exec,           \* one record per notebook cell: its NotebookCellExecution
    clock,          \* the wall clock read by Date.now()
    escaped         \* invocations whose promise was rejected

serialVars == <<content, formRanges, cells, written, spc>>
kernelVars == <<replies, runs, exec, clock, escaped>>
vars == <<content, formRanges, cells, written, spc,
          replies, runs, exec, clock, escaped>>

-----------------------------------------------------------------------------
(* Characters and string helpers (JavaScript String methods).              *)

NL == "\n"
SP == " "
SEMI == ";"
QUOTE == "\""

\* The line-comment marker ";; " of lines 56, 57, 61, 95.
Marker == <<SEMI, SEMI, SP>>
NlMarker == <<NL>> \o Marker
Header == <<NL, NL>> \o Marker

IsWhiteSpace(c) == c \in {NL, SP}

\* String.prototype.substring(start, end) for 0 <= start <= end <= length.
Substring(s, start, end) == SubSeq(s, start + 1, end)

\* String.prototype.substring(start).
SubstringFrom(s, start) == SubSeq(s, start + 1, Len(s))

\* String.prototype.startsWith(p).
StartsWith(s, p) == Len(s) >= Len(p) /\ SubSeq(s, 1, Len(p)) = p

\* String.prototype.indexOf(p): 0-based index of the first occurrence, or -1.
IndexOf(s, p) ==
    LET hits == {i \in 0..(Len(s) - Len(p)) : SubSeq(s, i + 1, i + Len(p)) = p}
    IN IF hits = {} THEN -1 ELSE CHOOSE i \in hits : \A j \in hits : i <= j

\* String.prototype.trimEnd(): drops the trailing white space.
RECURSIVE TrimEnd(_)
TrimEnd(s) ==
    IF s = <<>> THEN s
    ELSE IF IsWhiteSpace(s[Len(s)]) THEN TrimEnd(SubSeq(s, 1, Len(s) - 1))
    ELSE s

\* String.prototype.replace(/p/g, r) for a literal pattern p: the matches are
\* found left to right and do not overlap.
RECURSIVE ReplaceAll(_, _, _)
ReplaceAll(s, p, r) ==
    IF Len(s) < Len(p) \/ s = <<>> THEN s
    ELSE IF SubSeq(s, 1, Len(p)) = p
         THEN r \o ReplaceAll(SubSeq(s, Len(p) + 1, Len(s)), p, r)
         ELSE <<s[1]>> \o ReplaceAll(Tail(s), p, r)

\* String.prototype.repeat(n) of "\n".
RECURSIVE RepeatNL(_)
RepeatNL(n) == IF n <= 0 THEN <<>> ELSE <<NL>> \o RepeatNL(n - 1)

\* Array.prototype.join('') of a list of strings.
RECURSIVE Join(_)
Join(ss) == IF ss = <<>> THEN <<>> ELSE Head(ss) \o Join(Tail(ss))

\* Array.prototype.flat() of a list of <<start, end>> pairs.
RECURSIVE Flat(_)
Flat(rs) == IF rs = <<>> THEN <<>> ELSE <<Head(rs)[1], Head(rs)[2]>> \o Flat(Tail(rs))

-----------------------------------------------------------------------------
(* parseClojure and writeCellsToClojure.                                   *)

\* A cell built without a metadata property: x.metadata is undefined.
NoMetadata == [present |-> FALSE]

CommentMetadata(startingWhitespace, endingWhitespace) ==
    [present |-> TRUE, asMarkdown |-> TRUE,
     startingWhitespace |-> startingWhitespace,
     endingWhitespace |-> endingWhitespace]

MarkupCell(value, metadata) ==
    [value |-> value, kind |-> "Markup", languageId |-> "markdown", metadata |-> metadata]

CodeCell(value) ==
    [value |-> value, kind |-> "Code", languageId |-> "clojure", metadata |-> NoMetadata]

\* Lines 38-40: the offsets with content.length pushed, zipped with
\* themselves shifted by one: pair i (1-based) is <<start, end>>.
AllRanges(text, ranges) ==
    LET topLevelRanges == Flat(ranges) \o <<Len(text)>>
        starts == <<0>> \o Flat(ranges)
    IN [i \in 1..Len(topLevelRanges) |-> <<starts[i], topLevelRanges[i]>>]

\* Lines 56-66: the cell of a separator region that starts with "\n\n;; ".
CommentCell(rangeContent) ==
    LET startingWhitespace == IndexOf(rangeContent, NlMarker)
        endingWhitespace == Len(rangeContent) - Len(TrimEnd(rangeContent))
    IN MarkupCell(ReplaceAll(TrimEnd(SubstringFrom(rangeContent, startingWhitespace)),
                             NlMarker, <<NL>>),
                  CommentMetadata(startingWhitespace, endingWhitespace))

\* A faulty callback: the parity test is inverted.
RangeCellSwapped(text, start, end, index) ==
    LET rangeContent == Substring(text, start, end)
    IN IF index % 2 = 1
       THEN IF start = end THEN MarkupCell(<<>>, NoMetadata)
            ELSE MarkupCell(rangeContent, NoMetadata)
       ELSE CodeCell(rangeContent)

\* Lines 43-80: the callback of allRanges.map; index is 0-based.
RangeCell(text, start, end, index) ==
    LET isWhitespace == index % 2 = 0
        rangeContent == Substring(text, start, end)
    IN IF isWhitespace
       THEN IF start = end THEN MarkupCell(<<>>, NoMetadata)
            ELSE IF StartsWith(rangeContent, Header) THEN CommentCell(rangeContent)
            ELSE MarkupCell(rangeContent, NoMetadata)
       ELSE CodeCell(rangeContent)

\* Lines 42-80: allRanges.map(...), before the filter.
MappedCells(text, ranges) ==
    LET allRanges == AllRanges(text, ranges)
    IN [i \in 1..Len(allRanges) |->
           RangeCell(text, allRanges[i][1], allRanges[i][2], i - 1)]

\* Line 81: .filter((x) => x.value.length).
FilterCells(cs) == SelectSeq(cs, LAMBDA x : Len(x.value) # 0)

\* Lines 33-84.
parseClojure(text, ranges) == FilterCells(MappedCells(text, ranges))

\* Lines 88-101: the callback of cells.map.  Reading x.metadata.asMarkdown
\* of a cell without metadata raises a TypeError.
CellThrows(x) == x.kind # "Code" /\ ~x.metadata.present

CellText(x) ==
    IF x.kind = "Code" THEN x.value
    ELSE IF x.metadata.present /\ x.metadata.asMarkdown
         THEN RepeatNL(x.metadata.startingWhitespace)
              \o ReplaceAll(x.value, <<NL>>, NlMarker)
              \o RepeatNL(x.metadata.endingWhitespace)
         ELSE x.value

\* Lines 86-103: the text returned, or the TypeError raised.
writeCellsToClojure(cs) ==
    IF \E i \in 1..Len(cs) : CellThrows(cs[i])
    THEN [threw |-> TRUE, value |-> <<>>]
    ELSE [threw |-> FALSE, value |-> Join([i \in 1..Len(cs) |-> CellText(cs[i])])]

-----------------------------------------------------------------------------
(* The serializer as a state machine: a text is loaded with the spans the  *)
(* boundary locator reports for it, parsed into cells, and written back.   *)

MaxChunks == 4

\* The pieces the input texts are made of.
Chunks == {Header, NlMarker, <<NL>>, <<SP>>, <<"a">>}

ChunkSeqs == UNION {[1..n -> Chunks] : n \in 0..MaxChunks}

\* The offset at which chunk i of cs starts (i = Len(cs) + 1: the length).
RECURSIVE OffsetOf(_, _)
OffsetOf(cs, i) == IF i <= 1 THEN 0 ELSE OffsetOf(cs, i - 1) + Len(cs[i - 1])

\* Chunk k lies on a comment line: a marker precedes it on its line.
InComment(cs, k) ==
    \E m \in 1..(k - 1) :
        /\ cs[m] \in {Header, NlMarker}
        /\ \A j \in (m + 1)..(k - 1) : cs[j] \in {<<SP>>, <<"a">>}

\* The chunks that are code: the "a" outside the comment lines.
FormChunks(cs) == {k \in 1..Len(cs) : cs[k] = <<"a">> /\ ~InComment(cs, k)}

\* Chunk intervals <<i, j>> of adjacent code chunks: candidate forms.
FormIntervals(cs) ==
    {iv \in (1..Len(cs)) \X (1..Len(cs)) :
        /\ iv[1] <= iv[2]
        /\ \A k \in iv[1]..iv[2] : k \in FormChunks(cs)}

Disjoint(S) == \A p \in S : \A q \in S : p = q \/ p[2] < q[1] \/ q[2] < p[1]

Covers(cs, S) == \A k \in FormChunks(cs) : \E p \in S : p[1] <= k /\ k <= p[2]

RECURSIVE SpansOf(_, _)
SpansOf(cs, S) ==
    IF S = {} THEN <<>>
    ELSE LET first == CHOOSE p \in S : \A q \in S : p[1] <= q[1]
         IN <<<<OffsetOf(cs, first[1]), OffsetOf(cs, first[2] + 1)>>>>
            \o SpansOf(cs, S \ {first})

\* Line 35: what rangesForTopLevelForms() may return for the text made of
\* cs: the code outside the comments cut into forms, as ordered,
\* non-overlapping, non-empty, in-bounds spans.
RangesForTopLevelForms(cs) ==
    {SpansOf(cs, S) :
        S \in {T \in SUBSET FormIntervals(cs) : Disjoint(T) /\ Covers(cs, T)}}

KernelIdle ==
    /\ replies = "few"
    /\ runs = <<>>
    /\ exec = <<>>
    /\ clock = 0
    /\ escaped = {}

InitSerial ==
    /\ \E cs \in ChunkSeqs :
          /\ content = Join(cs)
          /\ formRanges \in RangesForTopLevelForms(cs)
    /\ cells = <<>>
    /\ written = [threw |-> FALSE, value |-> <<>>]
    /\ spc = "loaded"
    /\ KernelIdle

\* Lines 12-22: deserializeNotebook.
DeserializeNotebook ==
    /\ spc = "loaded"
    /\ cells' = parseClojure(content, formRanges)
    /\ spc' = "parsed"
    /\ UNCHANGED <<content, formRanges, written, kernelVars>>

\* Lines 24-30: serializeNotebook.
SerializeNotebook ==
    /\ spc = "parsed"
    /\ written' = writeCellsToClojure(cells)
    /\ spc' = "written"
    /\ UNCHANGED <<content, formRanges, cells, kernelVars>>

NextSerial == DeserializeNotebook \/ SerializeNotebook

SpecSerial == InitSerial /\ [][NextSerial]_vars

-----------------------------------------------------------------------------
(* JavaScript values met by doExecution: strings, undefined, Error objects *)
(* and plain objects with a name and a message.                            *)

StringVal(s) == [type |-> "string", text |-> s]
Undefined == [type |-> "undefined"]
ErrorObj(name, message) == [type |-> "Error", name |-> name, message |-> message]
PlainObj(name, message) == [type |-> "object", name |-> name, message |-> message]

BACKSLASH == "\\"

\* JSON's quoting of a string: the quote, the backslash and the newline are
\* escaped.
RECURSIVE JsonEscape(_)
JsonEscape(s) ==
    IF s = <<>> THEN <<>>
    ELSE (IF s[1] = QUOTE THEN <<BACKSLASH, QUOTE>>
          ELSE IF s[1] = BACKSLASH THEN <<BACKSLASH, BACKSLASH>>
          ELSE IF s[1] = NL THEN <<BACKSLASH, "n">>
          ELSE <<s[1]>>) \o JsonEscape(Tail(s))

JsonString(s) == <<QUOTE>> \o JsonEscape(s) \o <<QUOTE>>

Indent4 == <<SP, SP, SP, SP>>

\* Line 167: JSON.stringify(err, undefined, 4).  An Error object has no
\* enumerable property of its own and renders as {}; an object's properties
\* come one per line, indented by four spaces.
JsonStringify(v) ==
    IF v.type = "string" THEN JsonString(v.text)
    ELSE IF v.type = "Error" THEN <<"{", "}">>
    ELSE <<"{", NL>> \o Indent4 \o JsonString(<<"n", "a", "m", "e">>) \o <<":", SP>>
            \o JsonString(v.name) \o <<",", NL>>
         \o Indent4 \o JsonString(<<"m", "e", "s", "s", "a", "g", "e">>) \o <<":", SP>>
            \o JsonString(v.message) \o <<NL, "}">>

\* Lines 166-167: the object handed to NotebookCellOutputItem.error.  A || b
\* yields b when a is false or the empty string.
GenericName == <<"e", "r", "r", "o", "r">>

ErrorDescriptor(err) ==
    [name |-> IF err.type = "Error" /\ err.name # <<>> THEN err.name ELSE GenericName,
     message |-> IF err.type = "Error" /\ err.message # <<>> THEN err.message
                 ELSE JsonStringify(err)]

TextItem(mime, text) == [mime |-> mime, text |-> text]

ErrorItem(d) ==
    [mime |-> "application/vnd.code.notebook.error", name |-> d.name, message |-> d.message]

\* Lines 155-156: response.replace(/^"|"$/g, ''): a quote at the very start
\* and a quote at the very end are removed.
StripQuotes(s) ==
    LET a == IF s # <<>> /\ s[1] = QUOTE THEN Tail(s) ELSE s
    IN IF a # <<>> /\ a[Len(a)] = QUOTE THEN SubSeq(a, 1, Len(a) - 1) ELSE a

HtmlPrefix == <<"<", "h", "t", "m", "l">>

\* The backquote character, which a TLA+ string cannot hold.
BACKQUOTE == "BACKQUOTE"

\* Line 151: the fence put around the pretty-printed value.
FenceOpen == <<BACKQUOTE, BACKQUOTE, BACKQUOTE, "c", "l", "o", "j", "u", "r", "e", NL>>
FenceClose == <<NL, BACKQUOTE, BACKQUOTE, BACKQUOTE>>

\* A faulty output: the HTML test and item use the result as it is.
SuccessItemsNoStrip(response, pretty) ==
    <<TextItem("text/plain", response),
      TextItem("text/markdown", FenceOpen \o pretty \o FenceClose),
      TextItem("x-application/edn", response)>>
    \o (IF StartsWith(response, HtmlPrefix)
        THEN <<TextItem("text/html", response)>>
        ELSE <<>>)

\* Lines 149-157: the items of the success output.
SuccessItems(response, pretty) ==
    <<TextItem("text/plain", response),
      TextItem("text/markdown", FenceOpen \o pretty \o FenceClose),
      TextItem("x-application/edn", response)>>
    \o (IF StartsWith(StripQuotes(response), HtmlPrefix)
        THEN <<TextItem("text/html", StripQuotes(response))>>
        ELSE <<>>)

-----------------------------------------------------------------------------
(* The kernel: executeAll and doExecution.                                 *)

MaxRuns == 2
MaxCells == 2
MaxClock == 1
MaxQuotes == 2

\* The invocations of the execute handler and the cells of the notebook.
RunIds == DOMAIN runs
CellIds == DOMAIN exec

NoValue == [type |-> "none"]

\* A cell whose execution has not been created yet.
PendingExecution ==
    [status |-> "pending", startCalls |-> 0, endCalls |-> 0,
     startedAt |-> 0, endedAt |-> 0, success |-> "unset", outputs |-> <<>>,
     response |-> NoValue, pretty |-> NoValue, caught |-> NoValue]

IdleRun == [pc |-> "idle", cells |-> <<>>, i |-> 0]

\* Date.now(): the clock does not run backwards.
Now == {t \in clock..(clock + 1) : t <= MaxClock}

\* Lines 143-144: createNotebookCellExecution(cell); execution.start(Date.now()).
StartExecution(e, t) ==
    [e EXCEPT !.status = "started", !.startCalls = @ + 1, !.startedAt = t]

\* A faulty end: success is reported whatever was written.
EndExecutionAlwaysTrue(e, success, t) ==
    [e EXCEPT !.status = "ended", !.endCalls = @ + 1, !.endedAt = t, !.success = "true"]

\* Lines 161 and 171: execution.end(success, Date.now()).
EndExecution(e, success, t) ==
    [e EXCEPT !.status = "ended", !.endCalls = @ + 1, !.endedAt = t,
              !.success = IF success THEN "true" ELSE "false"]

CurrentCell(r) == runs[r].cells[runs[r].i]

\* The cells already handed to an invocation.
Requested == UNION {{runs[r].cells[k] : k \in 1..Len(runs[r].cells)} : r \in RunIds}

\* The cell lists the host may hand to executeAll: cells of the notebook in
\* document order that no invocation holds.
CellLists ==
    {cs \in UNION {[1..n -> CellIds \ Requested] : n \in 1..Cardinality(CellIds)} :
        \A k \in 1..(Len(cs) - 1) : cs[k] < cs[k + 1]}

\* A faulty handler: doExecution is not awaited, every cell starts at once.
InvokeAllAtOnce(r, cs) ==
    /\ runs[r].pc = "idle"
    /\ \A q \in 1..(r - 1) : runs[q].pc # "idle"
    /\ \E t \in Now :
          /\ clock' = t
          /\ exec' = [c \in CellIds |->
                         IF \E k \in 1..Len(cs) : cs[k] = c
                         THEN StartExecution(exec[c], t) ELSE exec[c]]
    /\ runs' = [runs EXCEPT ![r] = [pc |-> "awaitEval", cells |-> cs, i |-> 1]]
    /\ UNCHANGED <<replies, escaped, serialVars>>

\* Lines 129-135 and 143-147: the host calls the execute handler; the first
\* iteration runs up to the await of the evaluator call.
Invoke(r, cs) ==
    /\ runs[r].pc = "idle"
    /\ \A q \in 1..(r - 1) : runs[q].pc # "idle"
    /\ \E t \in Now :
          /\ clock' = t
          /\ exec' = [exec EXCEPT ![cs[1]] = StartExecution(@, t)]
    /\ runs' = [runs EXCEPT ![r] = [pc |-> "awaitEval", cells |-> cs, i |-> 1]]
    /\ UNCHANGED <<replies, escaped, serialVars>>

\* A faulty doExecution: the failure is not caught and rejects executeAll.
CatchRethrow(r, err) ==
    /\ exec' = [exec EXCEPT ![CurrentCell(r)].caught = err]
    /\ runs' = [runs EXCEPT ![r].pc = "rejected"]
    /\ escaped' = escaped \cup {r}
    /\ UNCHANGED <<replies, clock, serialVars>>

\* Lines 162-170: the catch block up to the await of replaceOutput.  The
\* failure values are such that JSON.stringify renders them.
Catch(r, err) ==
    /\ exec' = [exec EXCEPT ![CurrentCell(r)].caught = err,
                            ![CurrentCell(r)].outputs =
                                <<<<ErrorItem(ErrorDescriptor(err))>>>>]
    /\ runs' = [runs EXCEPT ![r].pc = "awaitErrorReplace"]
    /\ UNCHANGED <<replies, clock, escaped, serialVars>>

\* Reading .replace of a result that is not a string (line 155).
NotAString ==
    ErrorObj(<<"T", "y", "p", "e", "E", "r", "r", "o", "r">>, <<"r", "e", "p", "l", "a", "c", "e">>)

PrettyError == ErrorObj(<<"E", "r", "r", "o", "r">>, <<"p", "p">>)

Three == <<"3">>

PrettyValue(v) == [threw |-> FALSE, value |-> v, error |-> NoValue]
PrettyThrows == [threw |-> TRUE, value |-> <<>>, error |-> PrettyError]

\* The replies of the pipeline specification: a result, a pretty printer
\* that may fail, an evaluator that may fail.
FewReplies ==
    [responses |-> {StringVal(Three)},
     pretties |-> {PrettyValue(Three), PrettyThrows},
     failures |-> {ErrorObj(<<"E", "r", "r", "o", "r">>, <<"b", "o", "o", "m">>)}]

RECURSIVE Quotes(_)
Quotes(n) == IF n <= 0 THEN <<>> ELSE <<QUOTE>> \o Quotes(n - 1)

\* Results in and around the HTML case, with up to MaxQuotes quotes at
\* either end.
ResultBodies ==
    {<<>>, Three, HtmlPrefix, <<"<", "h", "t", "m">>, <<"x">> \o HtmlPrefix,
     HtmlPrefix \o <<">", QUOTE, "x">>}

Results ==
    {Quotes(a) \o body \o Quotes(b) :
        a \in 0..MaxQuotes, b \in 0..MaxQuotes, body \in ResultBodies}

ErrorNames == {<<>>, <<"E", "r", "r", "o", "r">>}
ErrorMessages == {<<>>, <<"b", "o", "o", "m">>}

\* Failure values: Error objects, strings, and objects with a name and a
\* message that are no Error.
Failures ==
    {ErrorObj(n, m) : n \in ErrorNames, m \in ErrorMessages}
    \cup {StringVal(m) : m \in ErrorMessages \cup {<<"a", QUOTE, NL, BACKSLASH>>}}
    \cup {PlainObj(n, m) : n \in ErrorNames, m \in ErrorMessages}

\* The replies of the single-cell specification.
AllReplies ==
    [responses |-> {StringVal(r) : r \in Results} \cup {Undefined},
     pretties |-> {PrettyValue(Three), PrettyValue(<<"(", NL, ")">>), PrettyThrows},
     failures |-> Failures]

\* What the evaluator (line 147) and the pretty printer (line 148) may answer.
Replies == IF replies = "all" THEN AllReplies ELSE FewReplies

\* Lines 147-159: the evaluator call resolves with {result: response}; pp is
\* what prettyPrint does with it.
AfterEvaluation(r, response, pp) ==
    IF pp.threw THEN
        /\ Catch(r, pp.error)
    ELSE IF response.type # "string" THEN
        /\ Catch(r, NotAString)
    ELSE
        /\ exec' = [exec EXCEPT ![CurrentCell(r)].response = response,
                                ![CurrentCell(r)].pretty = StringVal(pp.value),
                                ![CurrentCell(r)].outputs =
                                    <<SuccessItems(response.text, pp.value)>>]
        /\ runs' = [runs EXCEPT ![r].pc = "awaitReplace"]
        /\ UNCHANGED <<replies, clock, escaped, serialVars>>

EvaluateResolves(r) ==
    /\ runs[r].pc = "awaitEval"
    /\ \E response \in Replies.responses : \E pp \in Replies.pretties :
          AfterEvaluation(r, response, pp)

\* Line 147 and 162: the evaluator call rejects with err.
EvaluateRejects(r) ==
    /\ runs[r].pc = "awaitEval"
    /\ \E err \in Replies.failures : Catch(r, err)

\* Lines 159-161 and 170-171: replaceOutput resolves and the execution ends.
ReplaceOutputResolves(r) ==
    /\ runs[r].pc \in {"awaitReplace", "awaitErrorReplace"}
    /\ \E t \in Now :
          /\ clock' = t
          /\ exec' = [exec EXCEPT ![CurrentCell(r)] =
                         EndExecution(@, runs[r].pc = "awaitReplace", t)]
    /\ runs' = [runs EXCEPT ![r].pc = "returned"]
    /\ UNCHANGED <<replies, escaped, serialVars>>

\* A faulty loop: it goes on only after a successful cell.
ContinueUnlessFailed(r) ==
    /\ runs[r].pc = "returned"
    /\ exec[CurrentCell(r)].success = "true"
    /\ IF runs[r].i < Len(runs[r].cells)
       THEN \E t \in Now :
               /\ clock' = t
               /\ exec' = [exec EXCEPT ![runs[r].cells[runs[r].i + 1]] =
                              StartExecution(@, t)]
               /\ runs' = [runs EXCEPT ![r].i = @ + 1, ![r].pc = "awaitEval"]
       ELSE /\ runs' = [runs EXCEPT ![r].pc = "done"]
            /\ UNCHANGED <<clock, exec>>
    /\ UNCHANGED <<replies, escaped, serialVars>>

\* Lines 134-136: doExecution's promise has resolved; the loop goes on to
\* the next cell, or executeAll returns.
Continue(r) ==
    /\ runs[r].pc = "returned"
    /\ IF runs[r].i < Len(runs[r].cells)
       THEN \E t \in Now :
               /\ clock' = t
               /\ exec' = [exec EXCEPT ![runs[r].cells[runs[r].i + 1]] =
                              StartExecution(@, t)]
               /\ runs' = [runs EXCEPT ![r].i = @ + 1, ![r].pc = "awaitEval"]
       ELSE /\ runs' = [runs EXCEPT ![r].pc = "done"]
            /\ UNCHANGED <<clock, exec>>
    /\ UNCHANGED <<replies, escaped, serialVars>>

SerializerIdle ==
    /\ content = <<>>
    /\ formRanges = <<>>
    /\ cells = <<>>
    /\ written = [threw |-> FALSE, value |-> <<>>]
    /\ spc = "loaded"

\* A notebook of nCells code cells, a host that calls the execute handler
\* up to nRuns times, and a clock that shows t0.
InitKernel(nRuns, nCells, t0) ==
    /\ runs = [r \in 1..nRuns |-> IdleRun]
    /\ exec = [c \in 1..nCells |-> PendingExecution]
    /\ clock = t0
    /\ escaped = {}
    /\ SerializerIdle

Init == InitKernel(MaxRuns, MaxCells, 0) /\ replies = "few"

Next ==
    \/ \E r \in RunIds : \E cs \in CellLists : Invoke(r, cs)
    \/ \E r \in RunIds : EvaluateResolves(r)
    \/ \E r \in RunIds : EvaluateRejects(r)
    \/ \E r \in RunIds : ReplaceOutputResolves(r)
    \/ \E r \in RunIds : Continue(r)

\* The host calls the handler whenever a run is requested.
Spec == Init /\ [][Next]_vars

\* A step of an invocation that its host and its callees owe it: the
\* evaluator call settles, replaceOutput resolves, the loop is resumed.
Settle ==
    \E r \in RunIds :
        \/ EvaluateResolves(r)
        \/ EvaluateRejects(r)
        \/ ReplaceOutputResolves(r)
        \/ Continue(r)

\* Every call that was issued settles and the event loop resumes what is
\* ready; the host is never obliged to call the handler.
Fairness == WF_vars(Settle)

\* Progress does not read the clock: it is followed from the latest time
\* the clock can show.
InitFair == InitKernel(MaxRuns, MaxCells, MaxClock) /\ replies = "few"

FairSpec == InitFair /\ [][Next]_vars /\ Fairness

\* One invocation on one cell, with every reply.
InitCell == InitKernel(1, 1, 0) /\ replies = "all"

SpecCell == InitCell /\ [][Next]_vars

-----------------------------------------------------------------------------
(* Properties of the serializer (SpecSerial).                              *)

\* The lines of s: the pieces between its newline characters.
RECURSIVE SplitLines(_)
SplitLines(s) ==
    LET i == IndexOf(s, <<NL>>)
    IN IF i = -1 THEN <<s>>
       ELSE <<SubSeq(s, 1, i)>> \o SplitLines(SubSeq(s, i + 2, Len(s)))

\* A comment block as the spec's scenario has it: "\n", then one or more
\* lines each starting with ";; ", then blank lines only.
UniformlyPrefixed(region) ==
    LET ls == SplitLines(region)
    IN \E j \in 3..Len(ls) :
          /\ \A k \in 3..j : StartsWith(ls[k], Marker)
          /\ \A k \in (j + 1)..Len(ls) : ls[k] = <<>>

\* The augmented offset list [0, s1, e1, ..., sk, ek, length(text)].
AugmentedOffsets == <<0>> \o Flat(formRanges) \o <<Len(content)>>

\* Region i (1-based) of the text: between offsets i and i + 1 of the list.
Region(i) == SubSeq(content, AugmentedOffsets[i] + 1, AugmentedOffsets[i + 1])

NumRegions == Len(AugmentedOffsets) - 1

\* The separator regions are the 1st, 3rd, ... (pair indices 0, 2, ...).
IsSeparator(i) == i % 2 = 1

AllCommentBlocksPrefixed ==
    \A i \in 1..NumRegions :
        IsSeparator(i) /\ StartsWith(Region(i), Header) => UniformlyPrefixed(Region(i))

\* C1 (as claimed): writing back the cells parsed from a text whose comment
\* blocks are uniformly prefixed returns exactly that text.
RoundTripLaw ==
    spc = "written" /\ AllCommentBlocksPrefixed
        => ~written.threw /\ written.value = content

\* C2 (as claimed): writeCellsToClojure raises no error on the cells that
\* parseClojure produced.
JoinerRaisesNoError == spc = "written" => ~written.threw

\* The k-th smallest element of a finite set of numbers.
RECURSIVE KthOf(_, _)
KthOf(S, k) ==
    LET m == CHOOSE x \in S : \A y \in S : x <= y
    IN IF k = 1 THEN m ELSE KthOf(S \ {m}, k - 1)

\* C8: before the filter the cell of region i is Markup/markdown for the
\* separator regions and Code/clojure with the region's text for the form
\* regions; the cells returned are exactly the non-empty ones, in order.
ClassificationAlternation ==
    spc # "loaded" =>
        LET mapped == MappedCells(content, formRanges)
            kept == {i \in 1..NumRegions : Region(i) # <<>>}
        IN /\ Len(mapped) = NumRegions
           /\ \A i \in 1..NumRegions :
                 IF IsSeparator(i)
                 THEN mapped[i].kind = "Markup" /\ mapped[i].languageId = "markdown"
                 ELSE /\ mapped[i].kind = "Code"
                      /\ mapped[i].languageId = "clojure"
                      /\ mapped[i].value = Region(i)
           /\ \A i \in 1..NumRegions : (mapped[i].value = <<>>) <=> (i \notin kept)
           /\ Len(cells) = Cardinality(kept)
           /\ \A k \in 1..Len(cells) :
                 cells[k] = mapped[KthOf(kept, k)] /\ cells[k].value # <<>>

\* C8 witness: a parsed text with a form, a comment block and a dropped
\* empty separator.
ClassificationWitness ==
    /\ spc = "parsed"
    /\ Len(cells) < NumRegions
    /\ \E k \in 1..Len(cells) : cells[k].kind = "Code"
    /\ \E k \in 1..Len(cells) : cells[k].metadata.present

-----------------------------------------------------------------------------
(* Properties of the kernel (Spec, FairSpec, SpecCell).                    *)

CellsOf(r) == runs[r].cells

Ended(c) == exec[c].status = "ended"
Failed(c) == Ended(c) /\ exec[c].success = "false"
Succeeded(c) == Ended(c) /\ exec[c].success = "true"

\* A cell is Running from the evaluator call to the end of its execution.
Running(c) == exec[c].status = "started"

ErrorMime == "application/vnd.code.notebook.error"

\* C3: within an invocation, a cell is started only once the cell before
\* it has ended, and no later than it ends itself.
ExecutionOrder ==
    \A r \in RunIds : \A k \in 1..Len(CellsOf(r)) :
        LET c == CellsOf(r)[k]
        IN /\ Ended(c) => exec[c].startedAt <= exec[c].endedAt
           /\ k > runs[r].i => exec[c].status = "pending"
           /\ k > 1 /\ exec[c].status # "pending" =>
                 /\ Ended(CellsOf(r)[k - 1])
                 /\ exec[c].startedAt >= exec[CellsOf(r)[k - 1]].endedAt

\* C3 witness: an invocation whose second cell has ended after the clock
\* moved.
ExecutionOrderWitness ==
    \E r \in RunIds :
        /\ Len(CellsOf(r)) >= 2
        /\ Ended(CellsOf(r)[2])
        /\ exec[CellsOf(r)[2]].startedAt > exec[CellsOf(r)[1]].startedAt

AtMostOneRunning == Cardinality({c \in CellIds : Running(c)}) <= 1

\* The raw result without one leading and one trailing quote.
Unquoted(r) ==
    LET lead == IF Len(r) >= 1 /\ r[1] = QUOTE THEN 1 ELSE 0
        trail == IF Len(r) >= lead + 1 /\ r[Len(r)] = QUOTE THEN 1 ELSE 0
    IN [i \in 1..(Len(r) - lead - trail) |-> r[i + lead]]

\* C6: a successful cell shows the raw result as plain text, the fenced
\* pretty-printed value as markdown and the raw result as EDN, and a fourth,
\* HTML item exactly when the unquoted result starts with "<html".
SuccessOutputSet ==
    \A c \in CellIds : Succeeded(c) =>
        LET r == exec[c].response.text
            p == exec[c].pretty.text
            items == exec[c].outputs[1]
            html == /\ Len(Unquoted(r)) >= 5
                    /\ \A i \in 1..5 : Unquoted(r)[i] = HtmlPrefix[i]
        IN /\ Len(exec[c].outputs) = 1
           /\ Len(items) = IF html THEN 4 ELSE 3
           /\ items[1] = [mime |-> "text/plain", text |-> r]
           /\ items[2] = [mime |-> "text/markdown",
                          text |-> <<BACKQUOTE, BACKQUOTE, BACKQUOTE,
                                     "c", "l", "o", "j", "u", "r", "e", NL>>
                                   \o p \o <<NL, BACKQUOTE, BACKQUOTE, BACKQUOTE>>]
           /\ items[3] = [mime |-> "x-application/edn", text |-> r]
           /\ html => items[4] = [mime |-> "text/html", text |-> Unquoted(r)]

\* C6 witness: a quoted result that is HTML once unquoted.
SuccessOutputWitness ==
    \E c \in CellIds :
        /\ Succeeded(c)
        /\ exec[c].response.text # <<>>
        /\ exec[c].response.text[1] = QUOTE
        /\ Len(exec[c].outputs[1]) = 4

\* C7 (as claimed): the descriptor of an Error object carries its name and
\* its message, the empty string included; any other failure value gets the
\* generic name and its JSON rendering.
ErrorDescriptorFromFailure ==
    \A c \in CellIds : exec[c].caught # NoValue =>
        LET err == exec[c].caught
            item == exec[c].outputs[1][1]
        IN IF err.type = "Error"
           THEN item.name = err.name /\ item.message = err.message
           ELSE item.name = GenericName /\ item.message = JsonStringify(err)

=============================================================================
